---- MODULE Spec2Model ----
(***************************************************************************)
(* Model of caikit-nlp-client: the HTTP client (http_client.py), with its  *)
(* server-sent-events reassembler, the gRPC clients (grpc_client.py,       *)
(* grpc_client_introspection.py) and the construction of clients and gRPC  *)
(* channels (grpc_client.py, grpc_channel.py).                             *)
(*                                                                         *)
(* One facade call is in flight at a time (the client is synchronous).     *)
(* Bytes are sequences of tokens: a line of the event stream is the        *)
(* sequence <<prefix, t1, t2, ...>>, the empty sequence is a blank line.   *)
(* A JSON member such as "generated_text": "a" is one token.               *)
(***************************************************************************)
EXTENDS Integers, Sequences, FiniteSets, TLC

VARIABLES
    pc,        \* "new" (nothing constructed), "idle", "created" (generator not
               \* started), "loop", "rpc", "done"
    call,      \* the facade call in flight, NoCall when idle
    outcome,   \* how the call ended: "none" while running
    message,   \* the value returned or the message of the error raised
    net,       \* network activity issued by the call
    sent,      \* the HTTP requests issued, in order
    status,    \* status code of the HTTP response
    body,      \* body of the HTTP response of a non-streaming call
    rpcs,      \* the inference RPCs issued on the gRPC channel, in order
    pool,      \* names already resolved by the descriptor pool
    script,    \* what the gRPC server does with the RPC in flight
    received,  \* lines read so far from response.iter_lines()
    buffer,    \* the reassembler's buffer: a sequence of chunks
    yielded,   \* values handed to the consumer so far, in order
    decodes,   \* history of json.loads attempts of the reassembler
    args,      \* the arguments the client or channel was constructed with
    chan,      \* the gRPC channel built by the constructor, NoChannel if none
    loads,     \* history of _try_load_certificate calls: input and result
    probes,    \* connections opened by get_server_certificate
    schema,    \* names the server's reflection service can describe
    life,      \* the client object's life: its scope, close() calls, releases
    conn       \* the network stream behind a lazy sequence, and the sequence

vars == <<pc, call, outcome, message, net, sent, status, body, rpcs, pool, script,
          received, buffer, yielded, decodes, args, chan, loads, probes, schema,
          life, conn>>

httpVars == <<sent, status, body>>
grpcVars == <<rpcs, pool, script>>
streamVars == <<received, buffer, decodes>>
ctorVars == <<args, chan, loads, probes, schema>>
lifeVars == <<life, conn>>

(* ------------------------------ bounds ------------------------------- *)

MaxLines == 4

MaxStream == 3

(* ------------------------------ JSON --------------------------------- *)

Absent == "<absent>"
NoValue == "<none>"

Keys == {"generated_text", "details", "detail", "code", "models", "x"}

MemberTokens == {"G1", "G2", "D", "DT", "C", "M", "X"}

Key(tok) ==
    CASE tok = "G1" -> "generated_text"
      [] tok = "G2" -> "generated_text"
      [] tok = "D"  -> "details"
      [] tok = "DT" -> "detail"
      [] tok = "C"  -> "code"
      [] tok = "M"  -> "models"
      [] tok = "X"  -> "x"

Val(tok) ==
    CASE tok = "G1" -> "a"
      [] tok = "G2" -> "b"
      [] tok = "D"  -> "boom"
      [] tok = "DT" -> "bad input"
      [] tok = "C"  -> "3"
      [] tok = "M"  -> "[]"
      [] tok = "X"  -> "1"

EmptyObject == [k \in Keys |-> Absent]

DecodeFailure == [ok |-> FALSE, kind |-> "none", obj |-> EmptyObject]

RECURSIVE Members(_)
\* the members of a JSON object: member ("," member)*, a repeated key keeps
\* its last value
Members(s) ==
    IF Len(s) = 0 \/ s[1] \notin MemberTokens THEN DecodeFailure
    ELSE IF Len(s) = 1
         THEN [ok |-> TRUE, kind |-> "object",
               obj |-> [EmptyObject EXCEPT ![Key(s[1])] = Val(s[1])]]
    ELSE IF Len(s) = 2 \/ s[2] # "," THEN DecodeFailure
    ELSE LET rest == Members(SubSeq(s, 3, Len(s)))
         IN  IF ~rest.ok THEN DecodeFailure
             ELSE IF rest.obj[Key(s[1])] # Absent THEN rest
             ELSE [rest EXCEPT !.obj[Key(s[1])] = Val(s[1])]

\* a byte that is not valid UTF-8
BadByte == "0xFF"

\* s.decode(detect_encoding(s), "surrogatepass") fails with UnicodeDecodeError
UnicodeFailure == [ok |-> FALSE, kind |-> "unicode", obj |-> EmptyObject]

\* json.loads on a byte string: an object, a number, JSONDecodeError, or
\* UnicodeDecodeError when the bytes cannot be turned into text
JsonLoads(s) ==
    IF \E i \in 1..Len(s) : s[i] = BadByte THEN UnicodeFailure
    ELSE IF s = <<"1">> THEN [ok |-> TRUE, kind |-> "number", obj |-> EmptyObject]
    ELSE IF Len(s) >= 2 /\ s[1] = "{" /\ s[Len(s)] = "}"
         THEN IF Len(s) = 2 THEN [ok |-> TRUE, kind |-> "object", obj |-> EmptyObject]
              ELSE Members(SubSeq(s, 2, Len(s) - 1))
    ELSE DecodeFailure

RECURSIVE Join(_)
\* b"".join(buffer)
Join(chunks) ==
    IF chunks = <<>> THEN <<>> ELSE Head(chunks) \o Join(Tail(chunks))

IsErrorFrame_DetailsOnly(obj) == obj["details"] # Absent

IsErrorFrame_Never(obj) == FALSE

\* "details" in message and "code" in message
IsErrorFrame(obj) == obj["details"] # Absent /\ obj["code"] # Absent

(* --------------------------- the wire -------------------------------- *)

FrameA == <<"{", "G1", "}">>
FrameB == <<"{", "G2", ",", "D", "}">>
ErrorFrame == <<"{", "D", ",", "C", "}">>
OtherFrame == <<"{", "X", "}">>

Payloads ==
    {FrameA, FrameB, ErrorFrame, OtherFrame, <<"{", "G1">>, <<"}">>, <<"1">>,
     <<BadByte>>}

BlankLine == <<>>
EventMessage == <<"event: message">>
EventError == <<"event: error">>

DataLine(p) == <<"data: ">> \o p

Lines ==
    {BlankLine, EventMessage, EventError, <<"event: message", "#">>,
     <<"{", "D", "}">>}
    \cup {DataLine(p) : p \in Payloads}

ModelIds == {"", NoValue, "m"}

Falsy_OnlyNone(model_id) == model_id = NoValue

\* `not model_id`
Falsy(model_id) == model_id = "" \/ model_id = NoValue

\* the keywords of a call: a set of <<name, value>> pairs, one pair per name
HttpKwargSets ==
    {{}, {<<"timeout", "5.0">>}, {<<"max_new_tokens", "20">>},
     {<<"max_new_tokens", "20">>, <<"min_new_tokens", "4">>, <<"timeout", "5.0">>}}

Kwargs_All(keywords) == keywords

\* what `**kwargs` collects in a signature that names `timeout: float = 60.0`
Kwargs(keywords) == {p \in keywords : p[1] # "timeout"}

\* the value of the parameter `timeout: float = 60.0`
Timeout(keywords) ==
    IF \E p \in keywords : p[1] = "timeout"
    THEN (CHOOSE p \in keywords : p[1] = "timeout")[2]
    ELSE "60.0"

Call(transport, op, model_id, kwargs) ==
    [transport |-> transport, op |-> op, model_id |-> model_id, kwargs |-> kwargs]

NoCall == Call("none", "none", NoValue, {})

NoNet == [http |-> 0, rpc |-> 0, reflection |-> 0]

\* the text of an error (or the value returned), with the status code and the
\* detail string formatted into it
Msg(text, code, detail) ==
    [text |-> text, status |-> code, detail |-> detail, key |-> NoValue]

NoMessage == Msg(NoValue, 0, NoValue)

(* ----------------------------- gRPC ---------------------------------- *)

NlpService == "caikit.runtime.Nlp.NlpService"
InfoService == "caikit.runtime.info.InfoService"

\* what the server does with an RPC: the elements it sends (one for a unary
\* call that succeeds), then either the end of the call or a failure
Script(elems, fails, detail) == [elems |-> elems, fails |-> fails, detail |-> detail]

NoScript == Script(<<>>, FALSE, NoValue)

Texts == {"a", "b"}

ServerDetails == {"user requested an exception"}

\* a unary call answers with one result (its text may be empty) or fails
UnaryScripts ==
    {Script(<<t>>, FALSE, NoValue) : t \in Texts \cup {""}}
    \cup {Script(<<>>, TRUE, d) : d \in ServerDetails}

\* a server-streaming call sends some elements, then ends or fails
StreamScripts ==
    LET elems == UNION {[1..n -> Texts] : n \in 0..MaxStream}
    IN  {Script(e, FALSE, NoValue) : e \in elems}
        \cup {Script(e, TRUE, d) : e \in elems, d \in ServerDetails}

GrpcKwargSets ==
    SUBSET {<<"max_new_tokens", "20">>, <<"invalid_kwarg", "42">>, <<"bogus_param", "1">>}

\* the fields of the request message of a method, as reflection reports them
RequestFields(method) ==
    CASE method \in {"TextGenerationTaskPredict", "ServerStreamingTextGenerationTaskPredict"}
           -> {"text", "max_new_tokens", "min_new_tokens", "preserve_input_text"}
      [] method = "EmbeddingTaskPredict" -> {"text", "truncate_input_tokens"}
      [] method = "EmbeddingTasksPredict" -> {"texts", "truncate_input_tokens"}
      [] method = "SentenceSimilarityTaskPredict"
           -> {"source_sentence", "sentences", "truncate_input_tokens"}
      [] method = "SentenceSimilarityTasksPredict"
           -> {"source_sentences", "sentences", "truncate_input_tokens"}
      [] method = "RerankTaskPredict"
           -> {"documents", "query", "top_n", "truncate_input_tokens",
               "return_documents", "return_query", "return_text"}
      [] method = "GetModelsInfo" -> {"model_ids"}

\* the keyword arguments Request(**kwargs) rejects
Unsupported(method, kwargs) == {p \in kwargs : p[1] \notin RequestFields(method)}

KwMsg(key, value) ==
    [text |-> "Unsupported kwarg", status |-> 0, detail |-> value, key |-> key]

UnsupportedKwargError_NoValue(p) == KwMsg(p[1], NoValue)

\* f"Unsupported kwarg: {key}={kwargs.get(key)}"
UnsupportedKwargError(p) == KwMsg(p[1], p[2])

Rpc(service, method, has_metadata, model_id, kwargs) ==
    [service |-> service, method |-> method, has_metadata |-> has_metadata,
     mm_model_id |-> model_id, fields |-> {p \in kwargs : p[2] # NoValue}]

(* -------------------- certificates and channels ---------------------- *)

\* a Python value: its type and its content
Value(type, val) == [type |-> type, val |-> val]

None == Value("NoneType", "")

Bytes(b) == Value("bytes", b)

Str(s) == Value("str", s)

\* the class attribute `ca_cert = Optional[bytes]` of GrpcChannelConfig
Unset == Value("typing", "Optional[bytes]")

\* the paths that exist on the file system
Files == {"tls.pem"}

\* open(path, "rb").read()
FileBytes(path) == "PEM-F"

\* the values `not value` holds of: None, b"", "", 0
FalsyValues == {None, Bytes(""), Str(""), Value("int", "0")}

Truthy(v) == v \notin FalsyValues

\* what may be handed to GrpcClient as ca_cert, client_cert or client_key
CertValues ==
    {None, Bytes(""), Bytes("PEM-A"), Str(""), Str("tls.pem"), Str("missing.pem"),
     Value("int", "0"), Value("tuple", "Pinky")}

Returns(v) == [outcome |-> "return", value |-> v]

Raises(kind) == [outcome |-> kind, value |-> None]

\* GrpcClient._try_load_certificate
TryLoadCertificate(certificate) ==
    IF ~Truthy(certificate) THEN Returns(None)
    ELSE IF certificate.type = "bytes" THEN Returns(certificate)
    ELSE IF certificate.type = "str"
         THEN IF certificate.val \in Files
              THEN Returns(Bytes(FileBytes(certificate.val)))
              ELSE Raises("FileNotFoundError")
    ELSE Raises("ValueError")

Load(certificate) == [input |-> certificate, result |-> TryLoadCertificate(certificate)]

Channel(kind, root, key, chain) ==
    [kind |-> kind, root_certificates |-> root, private_key |-> key,
     certificate_chain |-> chain]

NoChannel == Channel("none", None, None, None)

\* grpc.insecure_channel(connection)
InsecureChannel == Channel("insecure", None, None, None)

Hosts == {"", " ", "localhost"}

Ports == {-1, 0, 8085}

Verifies == {"None", "True", "False"}

\* host.strip()
Strip(host) == IF host = " " THEN "" ELSE host

Args(ctor, host, port, insecure, verify, ca_cert, client_cert, client_key) ==
    [ctor |-> ctor, host |-> host, port |-> port, insecure |-> insecure,
     verify |-> verify, tls |-> FALSE, mtls |-> FALSE, ca_cert |-> ca_cert,
     client_cert |-> client_cert, client_key |-> client_key, server_cert |-> None]

NoArgs == Args("none", "", 0, FALSE, "None", None, None, None)

\* how a channel builder ends: what it raises or returns, the certificate
\* loads it made and the probe connections it opened
Built(out, text, ch, ls, n) ==
    [outcome |-> out, text |-> text, chan |-> ch, loads |-> ls, probes |-> n]

Rejected(text) == Built("ValueError", text, NoChannel, <<>>, 0)

\* the credentials chosen by GrpcClient._make_channel for a secure channel;
\* probe tells whether get_server_certificate can reach the host
Credentials(verify, ca, cert, key, ls, probe) ==
    IF Truthy(ca) /\ ~(Truthy(cert) \/ Truthy(key))
    THEN Built("return", "", Channel("secure", ca, None, None), ls, 0)
    ELSE IF Truthy(cert) /\ Truthy(key) /\ Truthy(ca)
    THEN Built("return", "", Channel("secure", ca, key, cert), ls, 0)
    ELSE IF verify = "False"
    THEN IF probe
         THEN Built("return", "", Channel("secure", Bytes("PEM-PROBED"), None, None), ls, 1)
         ELSE Built("OSError", "", NoChannel, ls, 1)
    ELSE Built("return", "", Channel("secure", None, None, None), ls, 0)

\* GrpcClient._make_channel
ClientMakeChannel(a, probe) ==
    IF Strip(a.host) = "" THEN Rejected("A non empty host name is required")
    ELSE IF a.port <= 0 THEN Rejected("A non zero port number is required")
    ELSE IF a.insecure /\ \E v \in {a.ca_cert, a.client_key, a.client_cert} : v # None
    THEN Rejected("cannot use insecure with TLS/mTLS certificates")
    ELSE IF a.insecure /\ a.verify = "True"
    THEN Rejected("insecure cannot be used with verify")
    ELSE LET key == Load(a.client_key)
             cert == Load(a.client_cert)
             ca == Load(a.ca_cert)
         IN  IF key.result.outcome # "return"
             THEN Built(key.result.outcome, "", NoChannel, <<key>>, 0)
             ELSE IF cert.result.outcome # "return"
             THEN Built(cert.result.outcome, "", NoChannel, <<key, cert>>, 0)
             ELSE IF ca.result.outcome # "return"
             THEN Built(ca.result.outcome, "", NoChannel, <<key, cert, ca>>, 0)
             ELSE IF a.insecure
             THEN Built("return", "", InsecureChannel, <<key, cert, ca>>, 0)
             ELSE Credentials(a.verify, ca.result.value, cert.result.value,
                              key.result.value, <<key, cert, ca>>, probe)

\* what a field of GrpcChannelConfig may hold
ConfigValues == {Unset, None, Bytes("PEM-A"), Bytes("PEM-B")}

Config(host, port, tls, mtls, ca_cert, client_cert, client_key, server_cert) ==
    [ctor |-> "make_channel", host |-> host, port |-> port,
     insecure |-> ~tls /\ ~mtls, verify |-> "None", tls |-> tls, mtls |-> mtls,
     ca_cert |-> ca_cert, client_cert |-> client_cert, client_key |-> client_key,
     server_cert |-> server_cert]

\* grpc.secure_channel(connection, grpc.ssl_channel_credentials(root, key, chain)):
\* the credentials take bytes or None and nothing else
SslChannel(root, key, chain) ==
    IF \E v \in {root, key, chain} : v.type \notin {"bytes", "NoneType"}
    THEN Built("TypeError", "", NoChannel, <<>>, 0)
    ELSE Built("return", "", Channel("secure", root, key, chain), <<>>, 0)

\* grpc_channel.make_channel
MakeChannel(config) ==
    IF Strip(config.host) = "" THEN Rejected("A non empty host name is required")
    ELSE IF config.port <= 0 THEN Rejected("A non zero port is required")
    ELSE IF ~config.tls /\ ~config.mtls
    THEN Built("return", "", InsecureChannel, <<>>, 0)
    ELSE IF config.tls
    THEN IF config.client_key = None THEN Rejected("A client key is required")
         ELSE IF config.client_cert = None THEN Rejected("A client cert is required")
         ELSE IF config.ca_cert = None
         THEN Rejected("A certificate authority certificate is required")
         ELSE SslChannel(config.ca_cert, config.client_key, config.client_cert)
    ELSE IF config.client_key = None THEN Rejected("A client key is required")
    ELSE IF config.client_cert = None THEN Rejected("A client certificate is required")
    ELSE IF config.server_cert = None THEN Rejected("A server certificate is required")
    ELSE SslChannel(config.server_cert, config.client_key, config.client_cert)

\* the names the descriptor pool asks the server's reflection service for
AllTypes ==
    {InfoService, NlpService, "caikit.runtime.Nlp.TextGenerationTaskRequest",
     "caikit.runtime.Nlp.ServerStreamingTextGenerationTaskRequest",
     "caikit_data_model.nlp.GeneratedTextResult"}

(* ---------------------- lifetimes and streams ------------------------ *)

\* scope: "none", "entered" (inside the with statement), "exited";
\* closes: calls of channel.close(); released: times the channel was released
Life(scope, closes, released, deleted) ==
    [scope |-> scope, closes |-> closes, released |-> released, deleted |-> deleted]

NoLife == Life("none", 0, 0, FALSE)

\* state: "none", "open", "ended" (the server ended it or it was read to its end);
\* suspended: the generator stands at a yield
Stream(state, suspended) == [state |-> state, suspended |-> suspended]

NoStream == Stream("none", FALSE)

(* ----------------------------- Init ---------------------------------- *)

Init ==
    /\ pc = "idle"
    /\ call = NoCall
    /\ outcome = "none"
    /\ message = NoMessage
    /\ net = NoNet
    /\ sent = <<>>
    /\ status = 0
    /\ body = <<>>
    /\ rpcs = <<>>
    /\ pool = {InfoService}
    /\ script = NoScript
    /\ received = <<>>
    /\ buffer = <<>>
    /\ yielded = <<>>
    /\ decodes = <<>>
    /\ args = NoArgs
    /\ chan = NoChannel
    /\ loads = <<>>
    /\ probes = 0
    /\ schema = AllTypes
    /\ life = NoLife
    /\ conn = NoStream

Raise(kind, msg) ==
    /\ pc' = "done"
    /\ outcome' = kind
    /\ message' = msg

(* ------------------------- HTTP requests ----------------------------- *)

StatusCodes == {200, 500}

\* response.reason
Reason(code) == IF code = 200 THEN "OK" ELSE "Internal Server Error"

Endpoint(op) ==
    CASE op = "generate_text" -> "/api/v1/task/text-generation"
      [] op = "generate_text_stream" -> "/api/v1/task/server-streaming-text-generation"
      [] op = "models_info" -> "/info/models"
      [] op = "embedding" -> "/api/v1/task/embedding"
      [] op = "embedding_tasks" -> "/api/v1/task/embedding-tasks"
      [] op = "sentence_similarity" -> "/api/v1/task/sentence-similarity"
      [] op = "sentence_similarity_tasks" -> "/api/v1/task/sentence-similarity-tasks"
      [] op = "rerank" -> "/api/v1/task/rerank"
      [] op = "rerank_tasks" -> "/api/v1/task/rerank-tasks"

Payload(model_id, inputs, has, parameters) ==
    [model_id |-> model_id, inputs |-> inputs,
     has_parameters |-> has, parameters |-> parameters]

NoPayload == Payload(NoValue, NoValue, FALSE, {})

\* the payload built inline by generate_text_stream
StreamPayload(model_id, text, kwargs) ==
    IF kwargs # {} THEN Payload(model_id, text, TRUE, kwargs)
    ELSE Payload(model_id, text, FALSE, {})

\* _create_json_request
CreateJsonRequest(model_id, text, kwargs) ==
    IF kwargs # {} THEN Payload(model_id, text, TRUE, kwargs)
    ELSE Payload(model_id, text, FALSE, {})

\* all((self._client_key_path, self._client_cert_path, self._ca_cert_path))
MtlsConfigured(a) == Truthy(a.client_key) /\ Truthy(a.client_cert) /\ Truthy(a.ca_cert)

\* a keyword that is not passed to requests
NotPassed == Value("absent", "")

\* the verify flag of the constructor as requests gets it
Flag(verify) == Value("bool", verify)

\* the cert option of requests: (client certificate path, client key path)
Pair(cert, key) == [cert |-> cert, key |-> key]

NoPair == Pair(NotPassed, NotPassed)

TlsConfiguration_FlagFirst(a) ==
    [cert |-> IF MtlsConfigured(a) THEN Pair(a.client_cert, a.client_key) ELSE NoPair,
     verify |-> IF a.verify # "None" THEN Flag(a.verify)
                ELSE IF Truthy(a.ca_cert) THEN a.ca_cert
                ELSE NotPassed]

\* HttpClient._get_tls_configuration: the keywords added to every request
TlsConfiguration(a) ==
    [cert |-> IF MtlsConfigured(a) THEN Pair(a.client_cert, a.client_key) ELSE NoPair,
     verify |-> IF Truthy(a.ca_cert) THEN a.ca_cert
                ELSE IF a.verify # "None" THEN Flag(a.verify)
                ELSE NotPassed]

\* requests.get / requests.post(url, json=, stream=, timeout=, **req_kwargs)
Request(method, url, json, stream, timeout) ==
    [method |-> method, url |-> url, json |-> json, stream |-> stream,
     timeout |-> timeout,
     verify |-> TlsConfiguration(args).verify, cert |-> TlsConfiguration(args).cert]

(* ------------------- HttpClient.generate_text_stream ----------------- *)

\* calling a generator function runs none of its body
HttpStreamCall ==
    /\ UNCHANGED lifeVars
    /\ UNCHANGED ctorVars
    /\ pc = "idle"
    /\ \E m \in ModelIds, kw \in HttpKwargSets :
         call' = Call("http", "generate_text_stream", m, kw)
    /\ pc' = "created"
    /\ UNCHANGED <<outcome, message, net, httpVars, grpcVars, streamVars, yielded>>

\* the first next(): the model id check and requests.post(..., stream=True)
HttpStreamStart ==
    /\ UNCHANGED life
    /\ UNCHANGED ctorVars
    /\ pc = "created"
    /\ call.transport = "http"
    /\ IF Falsy(call.model_id)
       THEN /\ Raise("ValueError", Msg("request must have a model id", 0, NoValue))
            /\ UNCHANGED <<net, sent, status>>
       ELSE /\ net' = [net EXCEPT !.http = @ + 1]
            /\ sent' = Append(sent, Request("POST", Endpoint(call.op),
                                             StreamPayload(call.model_id, "t",
                                                           Kwargs(call.kwargs)),
                                             TRUE, Timeout(call.kwargs)))
            /\ \E s \in StatusCodes : status' = s
            /\ pc' = "loop"
            /\ UNCHANGED <<outcome, message>>
    /\ conn' = IF Falsy(call.model_id) THEN conn ELSE Stream("open", FALSE)
    /\ UNCHANGED <<call, body, grpcVars, streamVars, yielded>>

\* `except json.JSONDecodeError: continue`: the buffer after a decode that failed
OnDecodeError(buf) == buf

\* the statements after the prefix tests of the loop body: decode the buffer
StreamDecode ==
    LET m == JsonLoads(Join(buffer)) IN
    /\ decodes' = Append(decodes, [at |-> "loop", bytes |-> Join(buffer),
                                   line |-> received'[Len(received')]])
    /\ IF m.kind = "unicode"
       THEN Raise("UnicodeDecodeError", NoMessage) /\ UNCHANGED <<buffer, yielded>>
       ELSE IF ~m.ok
       THEN /\ buffer' = OnDecodeError(buffer)
            /\ UNCHANGED <<pc, outcome, message, yielded>>
       ELSE /\ buffer' = <<>>
            /\ IF m.kind # "object"
               THEN Raise("TypeError", Msg("argument of type 'int' is not iterable", 0, NoValue))
                    /\ UNCHANGED yielded
               ELSE IF IsErrorFrame(m.obj)
               THEN Raise("RuntimeError",
                          Msg("Exception iterating responses", 0, m.obj["details"]))
                    /\ UNCHANGED yielded
               ELSE IF m.obj["generated_text"] = Absent
               THEN Raise("KeyError", Msg("generated_text", 0, NoValue))
                    /\ UNCHANGED yielded
               ELSE /\ yielded' = Append(yielded, m.obj["generated_text"])
                    /\ UNCHANGED <<pc, outcome, message>>

\* one iteration of `for line in response.iter_lines()`
StreamLine ==
    /\ UNCHANGED life
    /\ UNCHANGED ctorVars
    /\ pc = "loop"
    /\ Len(received) < MaxLines
    /\ \E line \in Lines :
         /\ received' = Append(received, line)
         /\ IF line # <<>> /\ line[1] = "data: "
            THEN /\ buffer' = Append(buffer, Tail(line))
                 /\ UNCHANGED <<pc, outcome, message, yielded, decodes>>
            ELSE IF line # <<>> /\ line[1] = "event: message"
            THEN IF Tail(line) # <<>>
                 THEN Raise("AssertionError", NoMessage)
                      /\ UNCHANGED <<buffer, yielded, decodes>>
                 ELSE UNCHANGED <<pc, outcome, message, buffer, yielded, decodes>>
            ELSE IF line # <<>> /\ line[1] = "event: error"
            THEN IF Tail(line) # <<>>
                 THEN Raise("AssertionError", NoMessage)
                      /\ UNCHANGED <<buffer, yielded, decodes>>
                 ELSE UNCHANGED <<pc, outcome, message, buffer, yielded, decodes>>
            ELSE StreamDecode
    /\ conn' = Stream(conn.state, yielded' # yielded)
    /\ UNCHANGED <<call, net, httpVars, grpcVars>>

\* the line source is exhausted: the code after the loop
StreamEnd ==
    /\ UNCHANGED life
    /\ UNCHANGED ctorVars
    /\ pc = "loop"
    /\ IF buffer = <<>>
       THEN /\ pc' = "done"
            /\ outcome' = "stop"
            /\ UNCHANGED <<message, yielded, decodes>>
       ELSE LET m == JsonLoads(Join(buffer)) IN
            /\ decodes' = Append(decodes, [at |-> "final", bytes |-> Join(buffer),
                                           line |-> BlankLine])
            /\ IF m.kind = "unicode"
               THEN Raise("UnicodeDecodeError", NoMessage) /\ UNCHANGED yielded
               ELSE IF ~m.ok
               THEN Raise("JSONDecodeError", NoMessage) /\ UNCHANGED yielded
               ELSE IF m.kind # "object"
               THEN Raise("TypeError", Msg("argument of type 'int' is not iterable", 0, NoValue))
                    /\ UNCHANGED yielded
               ELSE IF IsErrorFrame(m.obj)
               THEN Raise("RuntimeError",
                          Msg("Exception iterating responses", 0, m.obj["details"]))
                    /\ UNCHANGED yielded
               ELSE IF m.obj["generated_text"] = Absent
               THEN Raise("RuntimeError",
                          Msg("Unexpected response from the server: generated text is missing",
                              0, NoValue))
                    /\ UNCHANGED yielded
               ELSE /\ yielded' = Append(yielded, m.obj["generated_text"])
                    /\ pc' = "done"
                    /\ outcome' = "stop"
                    /\ UNCHANGED message
    /\ conn' = Stream("ended", FALSE)
    /\ UNCHANGED <<call, net, httpVars, grpcVars, received, buffer>>

\* the consumer gives the sequence up: generator.close() raises GeneratorExit at
\* the yield the generator stands at, or marks a generator never started as closed;
\* no statement of generate_text_stream closes the response
HttpStreamClose ==
    /\ UNCHANGED ctorVars
    /\ UNCHANGED life
    /\ call.transport = "http"
    /\ pc = "created" \/ (pc = "loop" /\ conn.suspended)
    /\ pc' = "abandoned"
    /\ outcome' = "closed"
    /\ conn' = Stream(conn.state, FALSE)
    /\ UNCHANGED <<call, message, net, httpVars, grpcVars, streamVars, yielded>>

NextStream ==
    \/ HttpStreamCall \/ HttpStreamStart \/ StreamLine \/ StreamEnd
    \/ HttpStreamClose

SpecStream == Init /\ [][NextStream]_vars

(* ------------------- HttpClient, non-streaming calls ----------------- *)

Bodies ==
    {<<"{", "G1", "}">>, <<"{", "D", "}">>, <<"{", "DT", "}">>,
     <<"{", "D", ",", "DT", "}">>, <<"{", "M", "}">>, <<"{", "X", "}">>,
     <<"1">>, <<"#">>}

TaskOps ==
    {"embedding", "embedding_tasks", "sentence_similarity",
     "sentence_similarity_tasks", "rerank", "rerank_tasks"}

Result(kind, msg) == [outcome |-> kind, message |-> msg]

Finish(r) == Raise(r.outcome, r.message)

\* response.json()[key] on a non-200 response: the detail, or the error the
\* lookup raises
ErrorDetails(code, b, key) ==
    LET m == JsonLoads(b) IN
    IF ~m.ok THEN Result("RuntimeError", Msg("status_code", code, Reason(code)))
    ELSE IF m.kind # "object"
    THEN Result("TypeError", Msg("'int' object is not subscriptable", 0, NoValue))
    ELSE IF m.obj[key] = Absent THEN Result("KeyError", Msg(key, 0, NoValue))
    ELSE Result("RuntimeError", Msg("status_code", code, m.obj[key]))

\* details_field = "details" if "details" in response.json() else "detail"
DetailsField(b) ==
    IF JsonLoads(b).obj["details"] # Absent THEN "details" ELSE "detail"

\* the tail of generate_text: from the status test to the return or raise
GenerateTextResult(code, b) ==
    LET m == JsonLoads(b) IN
    IF code = 200
    THEN IF ~m.ok THEN Result("JSONDecodeError", NoMessage)
         ELSE IF m.kind # "object"
         THEN Result("TypeError", Msg("'int' object is not subscriptable", 0, NoValue))
         ELSE IF m.obj["generated_text"] = Absent
         THEN Result("KeyError", Msg("generated_text", 0, NoValue))
         ELSE Result("return", Msg("generated_text", code, m.obj["generated_text"]))
    ELSE ErrorDetails(code, b, "details")

\* _unpack_or_raise_details, called with details_field=None
UnpackOrRaiseDetails(code, b) ==
    LET m == JsonLoads(b) IN
    IF code = 200
    THEN IF ~m.ok THEN Result("JSONDecodeError", NoMessage)
         ELSE Result("return", Msg("json", code, NoValue))
    ELSE IF m.ok /\ m.kind # "object"
    THEN Result("TypeError", Msg("argument of type 'int' is not iterable", 0, NoValue))
    ELSE ErrorDetails(code, b, DetailsField(b))

\* models_info: raise_for_status() and response.json()["models"]
ModelsInfoResult(code, b) ==
    LET m == JsonLoads(b) IN
    IF code >= 400 THEN Result("HTTPError", Msg("status_code", code, Reason(code)))
    ELSE IF ~m.ok THEN Result("JSONDecodeError", NoMessage)
    ELSE IF m.kind # "object"
    THEN Result("TypeError", Msg("'int' object is not subscriptable", 0, NoValue))
    ELSE IF m.obj["models"] = Absent THEN Result("KeyError", Msg("models", 0, NoValue))
    ELSE Result("return", Msg("models", code, m.obj["models"]))

\* a blocking requests.post/requests.get and the server's answer to it
Exchange(method, json) ==
    /\ net' = [net EXCEPT !.http = @ + 1]
    /\ sent' = Append(sent, Request(method, Endpoint(call'.op), json, FALSE,
                                     Timeout(call'.kwargs)))
    /\ \E s \in StatusCodes : status' = s
    /\ \E b \in Bodies : body' = b

HttpGenerateText ==
    /\ UNCHANGED lifeVars
    /\ UNCHANGED ctorVars
    /\ pc = "idle"
    /\ \E m \in ModelIds, kw \in HttpKwargSets :
         call' = Call("http", "generate_text", m, kw)
    /\ IF Falsy(call'.model_id)
       THEN /\ Raise("ValueError", Msg("request must have a model id", 0, NoValue))
            /\ UNCHANGED <<net, sent, status, body>>
       ELSE /\ Exchange("POST", CreateJsonRequest(call'.model_id, "t", Kwargs(call'.kwargs)))
            /\ Finish(GenerateTextResult(status', body'))
    /\ UNCHANGED <<grpcVars, streamVars, yielded>>

\* embedding, embedding_tasks, sentence_similarity, sentence_similarity_tasks,
\* rerank and rerank_tasks: the same handler up to the endpoint and the inputs
HttpTask ==
    /\ UNCHANGED lifeVars
    /\ UNCHANGED ctorVars
    /\ pc = "idle"
    /\ \E op \in TaskOps, m \in ModelIds, kw \in HttpKwargSets :
         call' = Call("http", op, m, kw)
    /\ IF Falsy(call'.model_id)
       THEN /\ Raise("ValueError", Msg("request must have a model id", 0, NoValue))
            /\ UNCHANGED <<net, sent, status, body>>
       ELSE /\ Exchange("POST", CreateJsonRequest(call'.model_id, "t", Kwargs(call'.kwargs)))
            /\ Finish(UnpackOrRaiseDetails(status', body'))
    /\ UNCHANGED <<grpcVars, streamVars, yielded>>

HttpModelsInfo ==
    /\ UNCHANGED lifeVars
    /\ UNCHANGED ctorVars
    /\ pc = "idle"
    /\ call' = Call("http", "models_info", NoValue, {})
    /\ Exchange("GET", NoPayload)
    /\ Finish(ModelsInfoResult(status', body'))
    /\ UNCHANGED <<grpcVars, streamVars, yielded>>

NextHttp == HttpGenerateText \/ HttpTask \/ HttpModelsInfo

SpecHttp == Init /\ [][NextHttp]_vars

(* ------------------------------ GrpcClient --------------------------- *)

GrpcTaskOps == {"embedding", "embeddings", "sentence_similarity", "sentence_similarity_tasks"}

GrpcRerankOps == {"rerank", "rerank_tasks"}

MethodOf(op) ==
    CASE op = "generate_text" -> "TextGenerationTaskPredict"
      [] op = "generate_text_stream" -> "ServerStreamingTextGenerationTaskPredict"
      [] op = "embedding" -> "EmbeddingTaskPredict"
      [] op = "embeddings" -> "EmbeddingTasksPredict"
      [] op = "sentence_similarity" -> "SentenceSimilarityTaskPredict"
      [] op = "sentence_similarity_tasks" -> "SentenceSimilarityTasksPredict"
      [] op = "rerank" -> "RerankTaskPredict"
      [] op = "rerank_tasks" -> "RerankTaskPredict"
      [] op = "models_info" -> "GetModelsInfo"

\* the keyword arguments each operation hands to _make_request
ArgsOf(op) ==
    CASE op = "embedding" -> {<<"text", "t">>, <<"truncate_input_tokens", NoValue>>}
      [] op = "embeddings" -> {<<"texts", "t">>, <<"truncate_input_tokens", NoValue>>}
      [] op = "sentence_similarity"
           -> {<<"source_sentence", "t">>, <<"sentences", "t">>,
               <<"truncate_input_tokens", NoValue>>}
      [] op = "sentence_similarity_tasks"
           -> {<<"source_sentences", "t">>, <<"sentences", "t">>,
               <<"truncate_input_tokens", NoValue>>}
      [] op \in GrpcRerankOps
           -> {<<"documents", "docs">>, <<"top_n", NoValue>>,
               <<"truncate_input_tokens", NoValue>>, <<"return_documents", "False">>,
               <<"return_query", "False">>, <<"return_text", "False">>}
      [] op = "models_info" -> {}

\* `model_id == ""`
IsEmptyString(model_id) == model_id = ""

\* the names the descriptor pool has to fetch over reflection
Lookups(names) == Cardinality(names \ pool)

UnaryFailure_Raw(detail) == Result("_InactiveRpcError", Msg("rpc", 0, detail))

\* except grpc._channel._InactiveRpcError as exc: raise RuntimeError(exc.details())
UnaryFailure(detail) == Result("RuntimeError", Msg("details", 0, detail))

StreamFailure_Raw(detail) == Result("_MultiThreadedRendezvous", Msg("rpc", 0, detail))

\* except grpc._channel._MultiThreadedRendezvous as exc: raise RuntimeError(exc.details())
StreamFailure(detail) == Result("RuntimeError", Msg("details", 0, detail))

\* what the caller of _make_request makes of the server's answer
UnaryResult(op, sc) ==
    IF sc.fails
    THEN IF op = "generate_text" THEN UnaryFailure(sc.detail)
         ELSE Result("_InactiveRpcError", Msg("rpc", 0, sc.detail))
    ELSE IF op = "generate_text"
    THEN IF sc.elems[1] = "" THEN Result("KeyError", Msg("generatedText", 0, NoValue))
         ELSE Result("return", Msg("generatedText", 0, sc.elems[1]))
    ELSE Result("return", Msg("response", 0, NoValue))

NoMetadata == [has |-> FALSE, mm_model_id |-> NoValue]

Metadata_Never(kwargs) == NoMetadata

\* `if "model_id" in kwargs: metadata = [("mm-model-id", model_id)]`, else None
Metadata(kwargs) ==
    IF \E p \in kwargs : p[1] = "model_id"
    THEN [has |-> TRUE, mm_model_id |-> (CHOOSE p \in kwargs : p[1] = "model_id")[2]]
    ELSE NoMetadata

\* what kwargs.pop("model_id") leaves in kwargs
PopModelId(kwargs) == {p \in kwargs : p[1] # "model_id"}

\* the KeyError of FindServiceByName for a service the server does not describe
ServiceNotFound(service) == Msg("Couldn't find service", 0, service)

\* _make_request and the handling of its result by the operation `op`
MakeRequest(op, service, names, kwargs) ==
    /\ pool' = pool \cup (names \cap schema)
    /\ IF service \notin schema
       THEN /\ Raise("KeyError", ServiceNotFound(service))
            /\ net' = [net EXCEPT !.reflection = @ + Lookups(names)]
            /\ UNCHANGED <<rpcs, script>>
       ELSE IF Unsupported(MethodOf(op), PopModelId(kwargs)) # {}
       THEN /\ \E p \in Unsupported(MethodOf(op), PopModelId(kwargs)) :
                 Raise("ValueError", UnsupportedKwargError(p))
            /\ net' = [net EXCEPT !.reflection = @ + Lookups(names)]
            /\ UNCHANGED <<rpcs, script>>
       ELSE /\ net' = [net EXCEPT !.reflection = @ + Lookups(names), !.rpc = @ + 1]
            /\ rpcs' = Append(rpcs, Rpc(service, MethodOf(op), Metadata(kwargs).has,
                                        Metadata(kwargs).mm_model_id, PopModelId(kwargs)))
            /\ \E sc \in UnaryScripts :
                 /\ script' = sc
                 /\ Finish(UnaryResult(op, sc))

\* the client object the call is made on: a client of class `kind`
IsClient(kind) == args.ctor \in {"none", kind}

GrpcGenerateText ==
    /\ UNCHANGED lifeVars
    /\ UNCHANGED ctorVars
    /\ pc = "idle"
    /\ IsClient("GrpcClient")
    /\ \E m \in ModelIds, kw \in GrpcKwargSets :
         call' = Call("grpc", "generate_text", m, kw)
    /\ IF IsEmptyString(call'.model_id)
       THEN /\ Raise("ValueError", Msg("request must have a model id", 0, NoValue))
            /\ UNCHANGED <<net, grpcVars>>
       ELSE MakeRequest("generate_text", NlpService, {NlpService},
                        {<<"model_id", call'.model_id>>, <<"text", "t">>}
                          \cup call'.kwargs)
    /\ UNCHANGED <<httpVars, streamVars, yielded>>

\* embedding, embeddings, sentence_similarity and sentence_similarity_tasks
GrpcTask ==
    /\ UNCHANGED lifeVars
    /\ UNCHANGED ctorVars
    /\ pc = "idle"
    /\ IsClient("GrpcClient")
    /\ \E op \in GrpcTaskOps, m \in ModelIds : call' = Call("grpc", op, m, {})
    /\ IF Falsy(call'.model_id)
       THEN /\ Raise("ValueError", Msg("request must have a model id", 0, NoValue))
            /\ UNCHANGED <<net, grpcVars>>
       ELSE MakeRequest(call'.op, NlpService, {NlpService},
                        {<<"model_id", call'.model_id>>} \cup ArgsOf(call'.op))
    /\ UNCHANGED <<httpVars, streamVars, yielded>>

\* rerank and rerank_tasks
GrpcRerank ==
    /\ UNCHANGED lifeVars
    /\ UNCHANGED ctorVars
    /\ pc = "idle"
    /\ IsClient("GrpcClient")
    /\ \E op \in GrpcRerankOps, m \in ModelIds : call' = Call("grpc", op, m, {})
    /\ \E docs_are_dicts \in BOOLEAN :
         IF Falsy(call'.model_id)
         THEN /\ Raise("ValueError", Msg("request must have a model id", 0, NoValue))
              /\ UNCHANGED <<net, grpcVars>>
         ELSE IF ~docs_are_dicts
         THEN /\ Raise("ValueError", Msg("documents should be a list of dicts", 0, NoValue))
              /\ UNCHANGED <<net, grpcVars>>
         ELSE MakeRequest(call'.op, NlpService, {"google.protobuf.Struct", NlpService},
                          {<<"model_id", call'.model_id>>} \cup ArgsOf(call'.op))
    /\ UNCHANGED <<httpVars, streamVars, yielded>>

GrpcModelsInfo ==
    /\ UNCHANGED lifeVars
    /\ UNCHANGED ctorVars
    /\ pc = "idle"
    /\ IsClient("GrpcClient")
    /\ call' = Call("grpc", "models_info", NoValue, {})
    /\ MakeRequest("models_info", InfoService, {InfoService}, {})
    /\ UNCHANGED <<httpVars, streamVars, yielded>>

\* `metadata = [("mm-model-id", model_id)]`
StreamMetadata(model_id) == [has |-> TRUE, mm_model_id |-> model_id]

\* calling the generator function runs none of its body
GrpcStreamCall ==
    /\ UNCHANGED lifeVars
    /\ UNCHANGED ctorVars
    /\ pc = "idle"
    /\ IsClient("GrpcClient")
    /\ \E m \in ModelIds, kw \in GrpcKwargSets :
         call' = Call("grpc", "generate_text_stream", m, kw)
    /\ pc' = "created"
    /\ UNCHANGED <<outcome, message, net, httpVars, grpcVars, streamVars, yielded>>

\* the first next(): from the model id check to the start of the RPC
GrpcStreamStart ==
    /\ UNCHANGED life
    /\ UNCHANGED ctorVars
    /\ pc = "created"
    /\ call.transport = "grpc"
    /\ IF Falsy(call.model_id)
       THEN /\ Raise("ValueError", Msg("request must have a model id", 0, NoValue))
            /\ UNCHANGED <<net, grpcVars>>
       ELSE /\ pool' = pool \cup ({NlpService} \cap schema)
            /\ IF NlpService \notin schema
               THEN /\ Raise("KeyError", ServiceNotFound(NlpService))
                    /\ net' = [net EXCEPT !.reflection = @ + Lookups({NlpService})]
                    /\ UNCHANGED <<rpcs, script>>
               ELSE IF Unsupported(MethodOf(call.op), call.kwargs) # {}
               THEN /\ \E p \in Unsupported(MethodOf(call.op), call.kwargs) :
                         Raise("ValueError", UnsupportedKwargError(p))
                    /\ net' = [net EXCEPT !.reflection = @ + Lookups({NlpService})]
                    /\ UNCHANGED <<rpcs, script>>
               ELSE /\ net' = [net EXCEPT !.reflection = @ + Lookups({NlpService}),
                                          !.rpc = @ + 1]
                    /\ rpcs' = Append(rpcs, Rpc(NlpService, MethodOf(call.op),
                                                StreamMetadata(call.model_id).has,
                                                StreamMetadata(call.model_id).mm_model_id,
                                                {<<"text", "t">>} \cup call.kwargs))
                    /\ \E sc \in StreamScripts : script' = sc
                    /\ pc' = "rpc"
                    /\ UNCHANGED <<outcome, message>>
    /\ conn' = IF pc' = "rpc" THEN Stream("open", FALSE) ELSE conn
    /\ UNCHANGED <<call, httpVars, streamVars, yielded>>

\* one step of `yield from (message.generated_text for message in make_request(...))`
GrpcStreamNext ==
    /\ UNCHANGED life
    /\ UNCHANGED ctorVars
    /\ pc = "rpc"
    /\ IF Len(yielded) < Len(script.elems)
       THEN /\ yielded' = Append(yielded, script.elems[Len(yielded) + 1])
            /\ UNCHANGED <<pc, outcome, message>>
       ELSE /\ IF script.fails
               THEN Finish(StreamFailure(script.detail))
               ELSE /\ pc' = "done"
                    /\ outcome' = "stop"
                    /\ UNCHANGED message
            /\ UNCHANGED yielded
    /\ conn' = IF yielded' # yielded THEN Stream("open", TRUE) ELSE Stream("ended", FALSE)
    /\ UNCHANGED <<call, net, httpVars, grpcVars, streamVars>>

\* the consumer gives the sequence up: generator.close(); no statement of
\* generate_text_stream cancels the call
GrpcStreamClose ==
    /\ UNCHANGED ctorVars
    /\ UNCHANGED life
    /\ call.transport = "grpc"
    /\ pc = "created" \/ (pc = "rpc" /\ conn.suspended)
    /\ pc' = "abandoned"
    /\ outcome' = "closed"
    /\ conn' = Stream(conn.state, FALSE)
    /\ UNCHANGED <<call, message, net, httpVars, grpcVars, streamVars, yielded>>

(* ------------------ GrpcCaikitNlpClientIntrospection ----------------- *)

\* __populate_request: text and the three parameters it knows
PopulateRequest(kwargs) ==
    {<<"text", "t">>}
    \cup {p \in kwargs : p[1] \in {"preserve_input_text", "max_new_tokens", "min_new_tokens"}}

IntroGenerateText ==
    /\ UNCHANGED lifeVars
    /\ UNCHANGED ctorVars
    /\ pc = "idle"
    /\ IsClient("GrpcCaikitNlpClientIntrospection")
    /\ \E m \in ModelIds, kw \in GrpcKwargSets :
         call' = Call("grpc_introspection", "generate_text", m, kw)
    /\ IF IsEmptyString(call'.model_id)
       THEN /\ Raise("ValueError", Msg("request must have a model id", 0, NoValue))
            /\ UNCHANGED <<net, grpcVars>>
       ELSE /\ net' = [net EXCEPT !.rpc = @ + 1]
            /\ rpcs' = Append(rpcs, Rpc(NlpService, "TextGenerationTaskPredict", TRUE,
                                        call'.model_id, PopulateRequest(call'.kwargs)))
            /\ \E sc \in UnaryScripts :
                 /\ script' = sc
                 /\ IF sc.fails THEN Finish(UnaryFailure_Raw(sc.detail))
                    ELSE Finish(Result("return", Msg("generated_text", 0, sc.elems[1])))
            /\ UNCHANGED pool
    /\ UNCHANGED <<httpVars, streamVars, yielded>>

\* collects the whole stream into a list before it returns
IntroGenerateTextStream ==
    /\ UNCHANGED lifeVars
    /\ UNCHANGED ctorVars
    /\ pc = "idle"
    /\ IsClient("GrpcCaikitNlpClientIntrospection")
    /\ \E m \in ModelIds, kw \in GrpcKwargSets :
         call' = Call("grpc_introspection", "generate_text_stream", m, kw)
    /\ IF IsEmptyString(call'.model_id)
       THEN /\ Raise("ValueError", Msg("request must have a model id", 0, NoValue))
            /\ UNCHANGED <<net, grpcVars, yielded>>
       ELSE /\ net' = [net EXCEPT !.rpc = @ + 1]
            /\ rpcs' = Append(rpcs, Rpc(NlpService, "ServerStreamingTextGenerationTaskPredict",
                                        TRUE, call'.model_id, PopulateRequest(call'.kwargs)))
            /\ \E sc \in StreamScripts :
                 /\ script' = sc
                 /\ IF sc.fails
                    THEN Finish(StreamFailure_Raw(sc.detail)) /\ UNCHANGED yielded
                    ELSE /\ Finish(Result("return", Msg("result", 0, NoValue)))
                         /\ yielded' = sc.elems
            /\ UNCHANGED pool
    /\ UNCHANGED <<httpVars, streamVars>>

NextGrpc ==
    \/ GrpcGenerateText \/ GrpcTask \/ GrpcRerank \/ GrpcModelsInfo
    \/ GrpcStreamCall \/ GrpcStreamStart \/ GrpcStreamNext \/ GrpcStreamClose
    \/ IntroGenerateText \/ IntroGenerateTextStream

SpecGrpc == Init /\ [][NextGrpc]_vars

Next == NextStream \/ NextHttp \/ NextGrpc

Spec == Init /\ [][Next]_vars

(* --------------------------- construction ---------------------------- *)

\* nothing constructed yet
InitNew ==
    /\ pc = "new"
    /\ call = NoCall
    /\ outcome = "none"
    /\ message = NoMessage
    /\ net = NoNet
    /\ sent = <<>>
    /\ status = 0
    /\ body = <<>>
    /\ rpcs = <<>>
    /\ pool = {}
    /\ script = NoScript
    /\ received = <<>>
    /\ buffer = <<>>
    /\ yielded = <<>>
    /\ decodes = <<>>
    /\ args = NoArgs
    /\ chan = NoChannel
    /\ loads = <<>>
    /\ probes = 0
    /\ schema = AllTypes
    /\ life = NoLife
    /\ conn = NoStream

\* a builder ran to its end: r is what it raised or returned
Construct(a, r) ==
    /\ args' = a
    /\ chan' = r.chan
    /\ loads' = r.loads
    /\ probes' = r.probes
    /\ pc' = "done"
    /\ outcome' = r.outcome
    /\ message' = Msg(r.text, 0, NoValue)

\* GrpcClient._try_load_certificate(certificate), a static method
TryLoadCertificateCall ==
    /\ UNCHANGED lifeVars
    /\ pc = "new"
    /\ \E certificate \in CertValues :
         Construct([NoArgs EXCEPT !.ctor = "_try_load_certificate"],
                   Built(TryLoadCertificate(certificate).outcome, "", NoChannel,
                         <<Load(certificate)>>, 0))
    /\ UNCHANGED <<call, net, httpVars, grpcVars, streamVars, yielded, schema>>

\* GrpcClient._make_channel(host, port, insecure=, verify=, client_key=, ...)
ClientMakeChannelCall ==
    /\ UNCHANGED lifeVars
    /\ pc = "new"
    /\ \E host \in Hosts, port \in Ports, insecure \in BOOLEAN, verify \in Verifies,
          ca \in CertValues, cert \in CertValues, key \in CertValues, probe \in BOOLEAN :
         LET a == Args("_make_channel", host, port, insecure, verify, ca, cert, key)
         IN  Construct(a, ClientMakeChannel(a, probe))
    /\ UNCHANGED <<call, net, httpVars, grpcVars, streamVars, yielded, schema>>

\* grpc_channel.make_channel(config)
MakeChannelCall ==
    /\ UNCHANGED lifeVars
    /\ pc = "new"
    /\ \E host \in Hosts, port \in Ports, tls \in BOOLEAN, mtls \in BOOLEAN,
          ca \in ConfigValues, cert \in ConfigValues, key \in ConfigValues,
          server \in ConfigValues :
         LET config == Config(host, port, tls, mtls, ca, cert, key, server)
         IN  Construct(config, MakeChannel(config))
    /\ UNCHANGED <<call, net, httpVars, grpcVars, streamVars, yielded, schema>>

\* what may be handed to HttpClient as ca_cert_path, client_cert_path, client_key_path
PathValues == {None, Str(""), Str("tls.pem"), Str("key.pem")}

\* HttpClient._mtls_configured
HttpClientInitResult_PairFirst(a) ==
    IF (Truthy(a.client_key) \/ Truthy(a.client_cert)) /\ ~MtlsConfigured(a)
    THEN Rejected("Must provide both client_cert_path and client_key_path for mTLS")
    ELSE IF a.verify = "False" /\ Truthy(a.ca_cert)
    THEN Rejected("Cannot use verify=False with ca_cert_path")
    ELSE Built("return", "", NoChannel, <<>>, 0)

\* the checks of HttpClient.__init__
HttpClientInitResult(a) ==
    IF a.verify = "False" /\ Truthy(a.ca_cert)
    THEN Rejected("Cannot use verify=False with ca_cert_path")
    ELSE IF (Truthy(a.client_key) \/ Truthy(a.client_cert)) /\ ~MtlsConfigured(a)
    THEN Rejected("Must provide both client_cert_path and client_key_path for mTLS")
    ELSE Built("return", "", NoChannel, <<>>, 0)

\* HttpClient(base_url, ca_cert_path=, client_cert_path=, client_key_path=, verify=)
HttpClientInit ==
    /\ UNCHANGED lifeVars
    /\ pc = "new"
    /\ \E verify \in Verifies, ca \in PathValues, cert \in PathValues, key \in PathValues :
         LET a == Args("HttpClient", "localhost", 8080, FALSE, verify, ca, cert, key)
             r == HttpClientInitResult(a)
         IN  /\ args' = a
             /\ IF r.outcome = "return"
                THEN pc' = "idle" /\ UNCHANGED <<outcome, message>>
                ELSE Raise(r.outcome, Msg(r.text, 0, NoValue))
    /\ UNCHANGED <<call, net, httpVars, grpcVars, streamVars, yielded, schema,
                   chan, loads, probes>>

NextHttpClient == HttpClientInit \/ NextHttp \/ HttpStreamCall \/ HttpStreamStart

\* an HttpClient is constructed and one operation is called on it, up to the
\* request it sends
SpecHttpClient == InitNew /\ [][NextHttpClient]_vars

NextConstruct ==
    \/ TryLoadCertificateCall \/ ClientMakeChannelCall \/ MakeChannelCall
    \/ HttpClientInit

SpecConstruct == InitNew /\ [][NextConstruct]_vars

(* ------------------------ client construction ------------------------ *)

\* the connection arguments the clients are constructed with
ClientArgs ==
    {Args("GrpcClient", "localhost", 8085, TRUE, "None", None, None, None),
     Args("GrpcClient", "localhost", 8085, FALSE, "None", Bytes("PEM-A"), None, None),
     Args("GrpcClient", "localhost", 8085, FALSE, "False", None, None, None),
     Args("GrpcClient", "", 8085, TRUE, "None", None, None, None)}

\* what the server's reflection service describes: everything, or all but one name
Schemas == {AllTypes} \cup {AllTypes \ {name} : name \in AllTypes}

\* the KeyError of FindMessageTypeByName for a type the server does not describe
TypeNotFound(name) == Msg("Couldn't find message", 0, name)

\* GrpcClient.__init__: the channel, then models_info() to test the connection
GrpcClientInit ==
    /\ UNCHANGED lifeVars
    /\ pc = "new"
    /\ \E a \in ClientArgs, probe \in BOOLEAN, types \in Schemas, up \in BOOLEAN,
          sc \in UnaryScripts :
         LET r == ClientMakeChannel(a, probe)
         IN  /\ args' = a
             /\ chan' = r.chan
             /\ loads' = r.loads
             /\ probes' = r.probes
             /\ schema' = types
             /\ IF r.outcome # "return"
                THEN /\ Raise(r.outcome, Msg(r.text, 0, NoValue))
                     /\ UNCHANGED <<net, grpcVars>>
                ELSE IF ~up
                THEN /\ Raise("RuntimeError", Msg("Could not connect to", 0, "unavailable"))
                     /\ net' = [net EXCEPT !.reflection = @ + 1]
                     /\ UNCHANGED grpcVars
                ELSE IF InfoService \notin types
                THEN /\ Raise("ValueError", ServiceNotFound(InfoService))
                     /\ net' = [net EXCEPT !.reflection = @ + 1]
                     /\ UNCHANGED grpcVars
                ELSE /\ net' = [net EXCEPT !.reflection = @ + 1, !.rpc = @ + 1]
                     /\ pool' = {InfoService}
                     /\ rpcs' = Append(rpcs, Rpc(InfoService, "GetModelsInfo",
                                                 Metadata({}).has,
                                                 Metadata({}).mm_model_id, {}))
                     /\ script' = sc
                     /\ IF sc.fails
                        THEN Raise("_InactiveRpcError", Msg("rpc", 0, sc.detail))
                        ELSE pc' = "idle" /\ UNCHANGED <<outcome, message>>
    /\ UNCHANGED <<call, httpVars, streamVars, yielded>>

\* the message types GrpcCaikitNlpClientIntrospection.__init__ resolves, in order
IntrospectionTypes ==
    <<"caikit.runtime.Nlp.TextGenerationTaskRequest",
      "caikit.runtime.Nlp.ServerStreamingTextGenerationTaskRequest",
      "caikit_data_model.nlp.GeneratedTextResult">>

\* GrpcCaikitNlpClientIntrospection.__init__(channel): every exception is re-raised
IntrospectionInit ==
    /\ UNCHANGED lifeVars
    /\ pc = "new"
    /\ \E types \in Schemas, up \in BOOLEAN :
         LET missing == {i \in 1..Len(IntrospectionTypes) : IntrospectionTypes[i] \notin types}
             first == CHOOSE i \in missing : \A j \in missing : i <= j
         IN  /\ args' = [NoArgs EXCEPT !.ctor = "GrpcCaikitNlpClientIntrospection"]
             /\ chan' = InsecureChannel
             /\ schema' = types
             /\ IF ~up
                THEN /\ Raise("_MultiThreadedRendezvous", Msg("rpc", 0, "unavailable"))
                     /\ net' = [net EXCEPT !.reflection = @ + 1]
                     /\ UNCHANGED pool
                ELSE IF missing # {}
                THEN /\ Raise("KeyError", TypeNotFound(IntrospectionTypes[first]))
                     /\ net' = [net EXCEPT !.reflection = @ + first]
                     /\ pool' = {IntrospectionTypes[i] : i \in 1..(first - 1)}
                ELSE /\ pc' = "idle"
                     /\ net' = [net EXCEPT !.reflection = @ + Len(IntrospectionTypes)]
                     /\ pool' = {IntrospectionTypes[i] : i \in 1..Len(IntrospectionTypes)}
                     /\ UNCHANGED <<outcome, message>>
    /\ UNCHANGED <<call, httpVars, rpcs, script, streamVars, yielded, loads, probes>>

ClosesChannel_Never(ch) == FALSE

\* `if hasattr(self, "_channel") and self._channel:` of _close
ClosesChannel(ch) == ch.kind # "none"

\* _close: self._channel.close(), which releases the channel the first time it is
\* called and does nothing afterwards (grpc.Channel.close is idempotent)
Close(l, ch) ==
    IF ClosesChannel(ch)
    THEN [l EXCEPT !.closes = @ + 1, !.released = IF @ = 0 THEN 1 ELSE @]
    ELSE l

\* self._channel.close() ends the server-streaming call that is still open on
\* the channel
Terminated(st, ch) ==
    IF ClosesChannel(ch) /\ st.state = "open" THEN Stream("ended", FALSE) ELSE st

\* what __exit__ returns: a true value would swallow the exception of the body
ExitReturns == FALSE

\* `with GrpcClient(...) as client:` reaches its body: __enter__ returns self
GrpcEnter ==
    /\ pc = "idle"
    /\ args.ctor = "GrpcClient"
    /\ life.scope = "none" /\ ~life.deleted
    /\ life' = [life EXCEPT !.scope = "entered"]
    /\ UNCHANGED <<pc, call, outcome, message, net, httpVars, grpcVars, streamVars,
                   yielded, ctorVars, conn>>

\* the body of the with statement is left, normally or by an exception: __exit__
GrpcExit ==
    /\ pc \in {"idle", "done", "abandoned"}
    /\ life.scope = "entered"
    /\ life' = [Close(life, chan) EXCEPT !.scope = "exited"]
    /\ pc' = IF pc = "idle" THEN "closed" ELSE pc
    /\ outcome' = IF ExitReturns /\ outcome \notin {"none", "return", "stop", "closed"}
                  THEN "suppressed" ELSE outcome
    /\ conn' = Terminated(conn, chan)
    /\ UNCHANGED <<call, message, net, httpVars, grpcVars, streamVars, yielded,
                   ctorVars>>

\* the client object is collected: __del__, also after a constructor that raised
GrpcDel ==
    /\ pc \in {"idle", "done", "abandoned", "closed"}
    /\ args.ctor = "GrpcClient"
    /\ life.scope # "entered" /\ ~life.deleted
    /\ life' = [Close(life, chan) EXCEPT !.deleted = TRUE]
    /\ pc' = IF pc = "idle" THEN "closed" ELSE pc
    /\ conn' = Terminated(conn, chan)
    /\ UNCHANGED <<call, outcome, message, net, httpVars, grpcVars, streamVars,
                   yielded, ctorVars>>

NextClient ==
    \/ GrpcClientInit \/ IntrospectionInit \/ NextGrpc
    \/ GrpcEnter \/ GrpcExit \/ GrpcDel

SpecClient == InitNew /\ [][NextClient]_vars

(* ======================= properties of the reassembler ================ *)

IsHttpStream == call.transport = "http" /\ call.op = "generate_text_stream"

\* a `data: <json object with generated_text>` line that carries no error marker
IsTextFrame(line) ==
    /\ line # <<>>
    /\ line[1] = "data: "
    /\ LET m == JsonLoads(Tail(line))
       IN  m.ok /\ m.kind = "object" /\ m.obj["generated_text"] # Absent
           /\ ~(m.obj["details"] # Absent /\ m.obj["code"] # Absent)

NotFrames == [ok |-> FALSE, texts |-> <<>>]

RECURSIVE WireFrames(_)
\* reads a line sequence as N well-formed frames: (event: message)? data blank,
\* the blank line after the last frame being optional
WireFrames(ls) ==
    IF ls = <<>> THEN [ok |-> TRUE, texts |-> <<>>]
    ELSE LET ls1 == IF Head(ls) = EventMessage THEN Tail(ls) ELSE ls
         IN  IF ls1 = <<>> \/ ~IsTextFrame(Head(ls1)) THEN NotFrames
             ELSE LET text == JsonLoads(Tail(Head(ls1))).obj["generated_text"]
                      rest == Tail(ls1)
                  IN  IF rest = <<>> THEN [ok |-> TRUE, texts |-> <<text>>]
                      ELSE IF Head(rest) # BlankLine THEN NotFrames
                      ELSE LET r == WireFrames(Tail(rest))
                           IN  IF r.ok THEN [ok |-> TRUE, texts |-> <<text>> \o r.texts]
                               ELSE NotFrames

\* C1: when the lines read are N well-formed frames (the last blank line
\* optional), the finished stream has yielded exactly the N generated texts in
\* wire order and ended normally.
C1_FramesYieldedInOrder ==
    (pc = "done" /\ IsHttpStream /\ ~Falsy(call.model_id) /\ WireFrames(received).ok)
        => /\ outcome = "stop"
           /\ yielded = WireFrames(received).texts

\* two frames, the second one announced by an event line and recovered at the
\* end of the stream because its blank line is missing
C1_Witness ==
    /\ pc = "done"
    /\ IsHttpStream
    /\ received = <<DataLine(FrameA), BlankLine, EventMessage, DataLine(FrameB)>>
    /\ yielded = <<"a", "b">>

Decoded(i) == JsonLoads(decodes[i].bytes)

IsErrorDecode(i) ==
    Decoded(i).ok /\ Decoded(i).kind = "object"
    /\ Decoded(i).obj["details"] # Absent /\ Decoded(i).obj["code"] # Absent

RECURSIVE TextsBefore(_)
\* the generated texts of the frames decoded by the first n decode attempts
TextsBefore(n) ==
    IF n = 0 THEN <<>>
    ELSE IF Decoded(n).ok /\ Decoded(n).kind = "object"
            /\ Decoded(n).obj["generated_text"] # Absent
         THEN Append(TextsBefore(n - 1), Decoded(n).obj["generated_text"])
         ELSE TextsBefore(n - 1)

\* C2: a decoded frame with both `details` and `code` is the last thing
\* decoded: the stream has ended with RuntimeError carrying the details value,
\* the frame was not yielded, and the values yielded are exactly the frames
\* decoded before it, in order.
C2_ErrorFrameAborts ==
    \A i \in 1..Len(decodes) :
        IsErrorDecode(i)
            => /\ i = Len(decodes)
               /\ pc = "done"
               /\ outcome = "RuntimeError"
               /\ message.text = "Exception iterating responses"
               /\ message.detail = Decoded(i).obj["details"]
               /\ yielded = TextsBefore(i - 1)

\* an error frame decoded on a delimiter after one frame was yielded
C2_Witness ==
    /\ pc = "done"
    /\ received = <<DataLine(FrameA), BlankLine, DataLine(ErrorFrame), BlankLine>>
    /\ outcome = "RuntimeError"
    /\ yielded = <<"a">>

\* an error frame decoded as the end-of-stream residual
C2_WitnessResidual ==
    /\ pc = "done"
    /\ received = <<DataLine(ErrorFrame)>>
    /\ decodes[Len(decodes)].at = "final"
    /\ outcome = "RuntimeError"

IsMissingTextDecode(i) ==
    /\ Decoded(i).ok /\ Decoded(i).kind = "object"
    /\ Decoded(i).obj["generated_text"] = Absent
    /\ ~IsErrorDecode(i)

\* C3: every decoded frame without `generated_text` that is not an error frame
\* ends the stream with RuntimeError "generated text is missing", wherever it
\* was decoded.
C3_MissingTextIsRuntimeError ==
    \A i \in 1..Len(decodes) :
        IsMissingTextDecode(i)
            => /\ pc = "done"
               /\ outcome = "RuntimeError"
               /\ message.text = "Unexpected response from the server: generated text is missing"

\* C4: once the line source is exhausted with a non-empty buffer exactly one
\* final decode was attempted; a frame it decoded is the last value yielded,
\* and a failed decode ends the stream with an error that is neither a
\* RuntimeError nor the decoder's own error (and never silently).
C4_FinalDecode ==
    (pc = "done" /\ IsHttpStream /\ decodes # <<>> /\ decodes[Len(decodes)].at = "final")
        => /\ Cardinality({i \in 1..Len(decodes) : decodes[i].at = "final"}) = 1
           /\ LET m == Decoded(Len(decodes))
              IN  IF m.ok
                  THEN (m.kind = "object" /\ m.obj["generated_text"] # Absent
                        /\ ~IsErrorDecode(Len(decodes)))
                           => /\ yielded # <<>>
                              /\ yielded[Len(yielded)] = m.obj["generated_text"]
                              /\ outcome = "stop"
                  ELSE outcome \notin {"stop", "RuntimeError", "JSONDecodeError"}

(* ==================== properties of the HTTP error handling =========== *)

IsHttpTaskCall ==
    /\ call.transport = "http"
    /\ call.op \in {"generate_text"} \cup TaskOps

\* C5: a non-streaming HTTP task call answered with a non-200 status raises
\* RuntimeError with the status code and the value of `details` or `detail`
\* when the body is a JSON object carrying one of them, and with the status
\* code and the reason phrase when the body is not JSON.
C5_ErrorNormalization ==
    (pc = "done" /\ IsHttpTaskCall /\ net.http = 1 /\ status # 200)
        => LET m == JsonLoads(body)
               details == {m.obj["details"], m.obj["detail"]} \ {Absent}
           IN  /\ (m.ok /\ m.kind = "object" /\ details # {})
                     => /\ outcome = "RuntimeError"
                        /\ message.status = status
                        /\ message.detail \in details
               /\ ~m.ok
                     => /\ outcome = "RuntimeError"
                        /\ message.status = status
                        /\ message.detail = Reason(status)

\* C6: every HTTP call answered with a non-200 status, the streaming one and
\* models_info included, ends with RuntimeError carrying the status code.
C6_Non200Raises ==
    (pc = "done" /\ call.transport = "http" /\ net.http > 0 /\ status # 200)
        => /\ outcome = "RuntimeError"
           /\ message.status = status

(* ======================= properties of the facade ===================== *)

\* C7: a call with model_id = "" issues no network activity and ends with
\* ValueError "request must have a model id"; a generator that was not started
\* has done nothing yet.
C7_EmptyModelIdNoNetwork ==
    (call.op \notin {"none", "models_info"} /\ call.model_id = "")
        => /\ net = NoNet
           /\ sent = <<>>
           /\ rpcs = <<>>
           /\ pc \in {"created", "abandoned", "done"}
           /\ pc = "done"
                => /\ outcome = "ValueError"
                   /\ message.text = "request must have a model id"

C7_Witness ==
    /\ pc = "done"
    /\ call.transport = "grpc"
    /\ call.op = "generate_text"
    /\ call.model_id = ""
    /\ outcome = "ValueError"

IsGrpcGeneration ==
    /\ call.transport = "grpc"
    /\ call.op \in {"generate_text", "generate_text_stream"}

ModelIdAccepted ==
    IF call.op = "generate_text" THEN call.model_id # ""
    ELSE call.model_id \notin {"", NoValue}

UnknownNames ==
    {p[1] : p \in call.kwargs}
        \ {"text", "max_new_tokens", "min_new_tokens", "preserve_input_text"}

\* C8: a GrpcClient generation call whose keyword parameters contain a name
\* that is not a field of the request schema sends no RPC and ends with
\* ValueError "Unsupported kwarg: <name>=<value>" for such a name and the
\* value supplied for it.
C8_UnsupportedKwarg ==
    (IsGrpcGeneration /\ ModelIdAccepted /\ UnknownNames # {})
        => /\ rpcs = <<>>
           /\ net.rpc = 0
           /\ pc \in {"created", "abandoned", "done"}
           /\ pc = "done"
                => /\ outcome = "ValueError"
                   /\ message.text = "Unsupported kwarg"
                   /\ message.key \in UnknownNames
                   /\ <<message.key, message.detail>> \in call.kwargs

C8_Witness ==
    /\ pc = "done"
    /\ IsGrpcGeneration
    /\ call.op = "generate_text_stream"
    /\ call.kwargs = {<<"max_new_tokens", "20">>, <<"invalid_kwarg", "42">>}
    /\ message.key = "invalid_kwarg"
    /\ message.detail = "42"

GrpcUnaryOps == {"generate_text"} \cup GrpcTaskOps \cup GrpcRerankOps

\* C9: a unary GrpcClient call whose RPC fails on the server ends with
\* RuntimeError whose message is the server's detail string.
C9_UnaryFailureIsRuntimeError ==
    (pc = "done" /\ call.transport = "grpc" /\ call.op \in GrpcUnaryOps
     /\ net.rpc = 1 /\ script.fails)
        => /\ outcome = "RuntimeError"
           /\ message.detail = script.detail

IsPrefix(s, t) == Len(s) <= Len(t) /\ s = SubSeq(t, 1, Len(s))

\* C10: GrpcClient.generate_text_stream delivers the server's elements in
\* order; when the server stream fails after k elements exactly those k
\* elements were delivered and the stream ends with RuntimeError carrying the
\* server detail.
C10_StreamOrder ==
    (call.transport = "grpc" /\ call.op = "generate_text_stream" /\ net.rpc = 1)
        => /\ IsPrefix(yielded, script.elems)
           /\ pc = "done"
                => /\ yielded = script.elems
                   /\ IF script.fails
                      THEN outcome = "RuntimeError" /\ message.detail = script.detail
                      ELSE outcome = "stop"

C10_Witness ==
    /\ pc = "done"
    /\ call.transport = "grpc"
    /\ call.op = "generate_text_stream"
    /\ script.fails
    /\ yielded = <<"a", "b">>
    /\ outcome = "RuntimeError"

(* =================== properties of channel construction ============== *)

\* the contract of the certificate resolver
ResolveContract(v) ==
    IF v = None THEN Returns(None)
    ELSE IF v.type = "bytes" THEN Returns(v)
    ELSE IF v.type = "str"
         THEN IF v.val \in Files THEN Returns(Bytes(FileBytes(v.val)))
              ELSE Raises("FileNotFoundError")
    ELSE Raises("ValueError")

\* C11: every call of the certificate resolver ends as its contract says: None
\* gives None, a byte string (the empty one included) is returned unchanged, the
\* path of an existing file gives the file's bytes, any other path raises
\* FileNotFoundError and a value of any other type raises ValueError.
C11_ResolverContract ==
    \A i \in 1..Len(loads) : loads[i].result = ResolveContract(loads[i].input)

IsClientChannel == args.ctor = "_make_channel" /\ pc = "done"

IsConfigChannel == args.ctor = "make_channel" /\ pc = "done"

\* a certificate field that was given a value
Given(v) == v \notin {None, Unset}

CertificateFields == {args.ca_cert, args.client_cert, args.client_key}

\* C12: a builder asked for a plaintext channel and given a certificate field
\* (CA, client certificate or client key) raises ValueError and creates no channel.
C12_PlaintextRejectsCertificates ==
    ((IsClientChannel \/ IsConfigChannel) /\ args.insecure
       /\ \E v \in CertificateFields : Given(v))
    => (outcome = "ValueError" /\ chan = NoChannel)

\* C13: GrpcClient channel construction with insecure=True and an explicit
\* verify flag, True or False, raises ValueError and returns no plaintext channel.
C13_InsecureRejectsVerify ==
    (IsClientChannel /\ args.insecure /\ args.verify # "None")
    => (outcome = "ValueError" /\ chan.kind # "insecure")

\* certificate material the builders can use as it is
Usable(v) == v.type = "bytes" /\ v.val # ""

\* client material is supplied, but CA, client certificate and client key are
\* not all three there; every field is either missing or usable
PartialMtls(ca, cert, key) ==
    /\ \A v \in {ca, cert, key} : v = None \/ Usable(v)
    /\ Usable(cert) \/ Usable(key)
    /\ ~(Usable(ca) /\ Usable(cert) /\ Usable(key))

\* C14: a builder asked for a secure channel with partial mTLS material raises
\* ValueError and builds no channel. For make_channel the mTLS descriptor is the
\* one with mtls set, whose CA is the server certificate.
C14_PartialMtlsRejected ==
    /\ (IsClientChannel /\ ~args.insecure /\ Strip(args.host) # "" /\ args.port > 0
          /\ PartialMtls(args.ca_cert, args.client_cert, args.client_key))
       => (outcome = "ValueError" /\ chan = NoChannel)
    /\ (IsConfigChannel /\ args.mtls /\ ~args.tls
          /\ PartialMtls(args.server_cert, args.client_cert, args.client_key))
       => (outcome = "ValueError" /\ chan = NoChannel)

\* the first validation rule the arguments violate, "none" if they violate none
FirstViolation(a) ==
    IF Strip(a.host) = "" THEN "host"
    ELSE IF a.port <= 0 THEN "port"
    ELSE IF a.insecure /\ \E v \in {a.ca_cert, a.client_cert, a.client_key} : v # None
    THEN "certificates"
    ELSE IF a.insecure /\ a.verify # "None" THEN "verify"
    ELSE "none"

RuleText(rule) ==
    CASE rule = "host" -> "A non empty host name is required"
      [] rule = "port" -> "A non zero port number is required"
      [] rule = "certificates" -> "cannot use insecure with TLS/mTLS certificates"
      [] rule = "verify" -> "insecure cannot be used with verify"

\* C15: the validation rules of GrpcClient channel construction are tried in the
\* order host, port, insecure with certificates, insecure with verify; the first
\* one violated gives the error, and the error comes before any certificate is
\* loaded, any probe connection is opened and any channel is created.
C15_ValidationOrder ==
    (IsClientChannel /\ FirstViolation(args) # "none")
    => /\ outcome = "ValueError"
       /\ message.text = RuleText(FirstViolation(args))
       /\ loads = <<>>
       /\ probes = 0
       /\ chan = NoChannel

\* the three certificates of a secure channel request as the builder sees them:
\* resolved by GrpcClient, taken as they are by make_channel
Material ==
    IF args.ctor = "_make_channel"
    THEN [ca |-> TryLoadCertificate(args.ca_cert),
          cert |-> TryLoadCertificate(args.client_cert),
          key |-> TryLoadCertificate(args.client_key)]
    ELSE [ca |-> Returns(args.ca_cert), cert |-> Returns(args.client_cert),
          key |-> Returns(args.client_key)]

\* a secure channel is requested with valid host and port, and each certificate
\* is either absent or bytes
IsSecureRequest ==
    /\ (IsClientChannel /\ ~args.insecure) \/ (IsConfigChannel /\ args.tls)
    /\ Strip(args.host) # "" /\ args.port > 0
    /\ \A f \in {"ca", "cert", "key"} :
         /\ Material[f].outcome = "return"
         /\ Material[f].value = None \/ Usable(Material[f].value)

\* C16: a secure channel request with only a CA gives a channel whose root
\* certificate is that CA and which has no client key or certificate; with CA,
\* client certificate and client key it gives a channel made of exactly these
\* three; key and certificate reach the credentials only when all three are there.
C16_CredentialsFromMaterial ==
    IsSecureRequest =>
      LET ca == Material.ca.value
          cert == Material.cert.value
          key == Material.key.value
          all3 == Usable(ca) /\ Usable(cert) /\ Usable(key)
      IN  /\ (Usable(ca) /\ cert = None /\ key = None)
               => (outcome = "return" /\ chan = Channel("secure", ca, None, None))
          /\ all3 => (outcome = "return" /\ chan = Channel("secure", ca, key, cert))
          /\ (chan.private_key # None \/ chan.certificate_chain # None) <=> all3

(* ================== properties of HttpClient construction ============ *)

IsHttpClientInit == args.ctor = "HttpClient" /\ call = NoCall

\* verify=False together with a CA path
VerifyContradiction == args.verify = "False" /\ Truthy(args.ca_cert)

\* one of client certificate and client key without the other
OnlyOneOfPair == Truthy(args.client_cert) # Truthy(args.client_key)

\* C19: HttpClient construction raises ValueError when verify=False comes with a
\* CA path or when only one of client certificate and client key is given; when
\* both faults are there the error is the verify/CA one; construction issues no
\* network call.
C19_HttpClientValidation ==
    IsHttpClientInit =>
      /\ (VerifyContradiction \/ OnlyOneOfPair) => outcome = "ValueError"
      /\ VerifyContradiction
           => message.text = "Cannot use verify=False with ca_cert_path"
      /\ net = NoNet /\ sent = <<>> /\ rpcs = <<>> /\ probes = 0

C19_Witness ==
    /\ IsHttpClientInit
    /\ VerifyContradiction /\ OnlyOneOfPair
    /\ outcome = "ValueError"
    /\ message.text = "Cannot use verify=False with ca_cert_path"

(* =================== properties of the gRPC clients ================== *)

ClientClasses == {"GrpcClient", "GrpcCaikitNlpClientIntrospection"}

\* the constructor of a client returned
Constructed == args.ctor \in ClientClasses /\ ~(pc = "done" /\ call = NoCall)

\* the names a client of the class needs the server to describe
Required(class) ==
    IF class = "GrpcClient" THEN {InfoService, NlpService}
    ELSE {NlpService} \cup {IntrospectionTypes[i] : i \in 1..Len(IntrospectionTypes)}

\* no generation call of a constructed client ends with a name that is not found
NoLateSchemaFailure ==
    (Constructed /\ call.op \in {"generate_text", "generate_text_stream"} /\ pc = "done")
    => ~(outcome = "KeyError"
         /\ message.text \in {"Couldn't find service", "Couldn't find message"})

\* C17: a client is constructed only when the server describes every service and
\* message type the client needs, so that no generate_text or generate_text_stream
\* call of a constructed client fails for a missing type or service.
C17_SchemaFailFast ==
    /\ Constructed => Required(args.ctor) \subseteq schema
    /\ NoLateSchemaFailure

\* C18: every RPC that carries a model id has it as the metadata entry
\* mm-model-id and not as a field of the request message; the models listing,
\* which has no model id, carries no such metadata.
C18_ModelIdIsMetadata ==
    \A i \in 1..Len(rpcs) :
      /\ \A p \in rpcs[i].fields : p[1] # "model_id"
      /\ IF rpcs[i].method = "GetModelsInfo"
         THEN ~rpcs[i].has_metadata
         ELSE rpcs[i].has_metadata /\ rpcs[i].mm_model_id = call.model_id

C18_Witness ==
    /\ Len(rpcs) = 2
    /\ rpcs[1].method = "GetModelsInfo" /\ ~rpcs[1].has_metadata
    /\ rpcs[2].method = "EmbeddingTaskPredict"
    /\ rpcs[2].has_metadata /\ rpcs[2].mm_model_id = "m"

(* =================== properties of the HTTP requests ================= *)

\* the keyword parameters of the call, the timeout not being one of them
PassedParameters == {p \in call.kwargs : p[1] # "timeout"}

IsHttpGeneration ==
    /\ call.transport = "http"
    /\ call.op \in {"generate_text", "generate_text_stream"}
    /\ sent # <<>>

\* C20: the JSON body of generate_text and of generate_text_stream is model_id
\* and inputs, plus parameters exactly when a keyword parameter was passed, and
\* then parameters holds the passed parameters as they were passed, without the
\* timeout; the body depends on the arguments only, not on the operation.
C20_JsonBody ==
    IsHttpGeneration =>
      /\ Len(sent) = 1
      /\ sent[1].json.model_id = call.model_id
      /\ sent[1].json.inputs = "t"
      /\ sent[1].json.has_parameters <=> PassedParameters # {}
      /\ sent[1].json.parameters = PassedParameters

C20_Witness ==
    /\ IsHttpGeneration
    /\ call.op = "generate_text_stream"
    /\ <<"timeout", "5.0">> \in call.kwargs
    /\ sent[1].json.has_parameters
    /\ sent[1].json.parameters = {<<"max_new_tokens", "20">>, <<"min_new_tokens", "4">>}
    /\ sent[1].timeout = "5.0"

(* ================= properties of lifetimes and streams =============== *)

C22_DecodeOnlyAtDelimiter ==
    \A i \in 1..Len(decodes) : decodes[i].at = "loop" => decodes[i].line = BlankLine

\* a step of the line loop that reads a blank line
ReadsDelimiter ==
    /\ pc = "loop"
    /\ Len(received') = Len(received) + 1
    /\ received'[Len(received')] = BlankLine

\* C23: when a blank line is read and the buffer does not decode (the empty
\* buffer included), no error is raised, nothing is yielded and the buffer stays
\* as it is; when the buffer decodes it is emptied, so that the buffer is empty
\* at every yield made inside the line loop.
C23_DelimiterDecode ==
    [][/\ ReadsDelimiter =>
            IF JsonLoads(Join(buffer)).ok THEN buffer' = <<>>
            ELSE /\ pc' = "loop" /\ outcome' = outcome
                 /\ yielded' = yielded /\ buffer' = buffer
       /\ (pc = "loop" /\ Len(received') > Len(received) /\ yielded' # yielded)
            => buffer' = <<>>]_vars

(* ======================== properties of the TLS probe ================= *)

\* C24: GrpcClient channel construction fetches the certificate of the live
\* server if and only if verify is False and no CA, client certificate or client
\* key is supplied; when a CA is supplied the channel that is built has that CA
\* as its root certificate, never the fetched one.
C24_ProbeOnlyWithoutMaterial ==
    (IsClientChannel /\ IsSecureRequest) =>
      LET ca == Material.ca.value
          cert == Material.cert.value
          key == Material.key.value
      IN  /\ probes = 1 <=> (args.verify = "False" /\ ca = None /\ cert = None /\ key = None)
          /\ (Usable(ca) /\ chan # NoChannel) => chan.root_certificates = ca

(* ========================= properties of requests ===================== *)

\* a call never issues a second request
AtMostOneRequest ==
    /\ net.http <= 1 /\ net.rpc <= 1
    /\ Len(sent) <= 1 /\ Len(rpcs) <= 1

\* the one request of the call failed: the server answered it with a status
\* other than 200, or the RPC ended with an error
RequestFailed ==
    \/ call.transport = "http" /\ net.http = 1 /\ status # 200
    \/ call.transport = "grpc" /\ net.rpc = 1 /\ script.fails

\* C25: a call issues at most one request, and when that request fails the
\* call ends with an error instead of a result or a normally ended sequence.
C25_NoRetry ==
    /\ AtMostOneRequest
    /\ (pc = "done" /\ RequestFailed) => outcome \notin {"return", "stop"}

(* ==================== properties of lifetimes and streams ============= *)

\* C26: once the lazy sequence of a streaming operation is over, because the
\* caller closed it before the end or because an error aborted it, the network
\* stream under it (the server-streaming call, the HTTP response) is not left
\* open.
C26_StreamReleased ==
    (call.op = "generate_text_stream" /\ pc \in {"done", "abandoned"})
        => conn.state # "open"

\* the model ids that stand for a missing model id
MissingModelIds == {"", NoValue}

\* C27: every operation that takes a model id rejects the empty string and None,
\* and only these: a call with one of them issues no network activity and ends
\* with ValueError "request must have a model id", and no call with another model
\* id ends with that error.
C27_UniformModelId ==
    call.op \notin {"none", "models_info"} =>
      /\ call.model_id \in MissingModelIds
           => /\ net = NoNet
              /\ pc = "done" => outcome = "ValueError"
      /\ (pc = "done" /\ outcome = "ValueError"
            /\ message.text = "request must have a model id")
           => call.model_id \in MissingModelIds

\* C28: generate_text_stream called with an empty model id raises ValueError in
\* the call itself: no lazy sequence is handed back to the caller first.
C28_ModelIdCheckedInCall ==
    (call.op = "generate_text_stream" /\ call.model_id = "")
        => (pc = "done" /\ outcome = "ValueError")

(* ======================= properties of the gRPC clients =============== *)

\* a generation call of one of the two gRPC clients
IsAnyGrpcGeneration ==
    /\ call.transport \in {"grpc", "grpc_introspection"}
    /\ call.op \in {"generate_text", "generate_text_stream"}

\* C29: GrpcClient and GrpcCaikitNlpClientIntrospection treat keyword
\* parameters alike: a request that is sent carries every parameter the caller
\* supplied, and a call with a parameter that is not a field of the request
\* ends with ValueError "Unsupported kwarg" naming such a parameter; no
\* parameter is dropped silently.
C29_SameKeywordHandling ==
    IsAnyGrpcGeneration =>
      /\ rpcs # <<>> => call.kwargs \subseteq rpcs[1].fields
      /\ (pc = "done" /\ call.model_id = "m" /\ UnknownNames # {})
           => /\ outcome = "ValueError"
              /\ message.text = "Unsupported kwarg"
              /\ message.key \in UnknownNames

(* ===================== properties of the HTTP requests ================ *)

\* C30: every request of a constructed HttpClient carries the TLS options the
\* constructor arguments fix: verify is the CA path when a CA path was given,
\* otherwise the verify flag when one was given, otherwise it is not passed;
\* the (certificate, key) pair is passed exactly when CA, client certificate
\* and client key were all given; verification is never switched off on a
\* client that has a CA.
C30_TlsOptions ==
    args.ctor = "HttpClient" =>
      \A i \in 1..Len(sent) :
        /\ sent[i].verify =
             (IF Truthy(args.ca_cert) THEN args.ca_cert
              ELSE IF args.verify # "None" THEN Flag(args.verify)
              ELSE NotPassed)
        /\ sent[i].cert # NoPair
             <=> (Truthy(args.ca_cert) /\ Truthy(args.client_cert)
                  /\ Truthy(args.client_key))
        /\ sent[i].cert # NoPair
             => sent[i].cert = Pair(args.client_cert, args.client_key)
        /\ Truthy(args.ca_cert) => sent[i].verify # Flag("False")

C30_Witness ==
    /\ args.ctor = "HttpClient"
    /\ args.verify = "True"
    /\ args.ca_cert = Str("tls.pem")
    /\ call.op = "generate_text_stream"
    /\ Len(sent) = 1
    /\ sent[1].verify = Str("tls.pem")
    /\ sent[1].cert = Pair(Str("tls.pem"), Str("key.pem"))

====
